---- MODULE Spec2Model ----
(***************************************************************************)
(* Model of src/src/App.tsx (bird-guardian): the four-step incident report *)
(* workflow of the App component (handleFileUpload, handleGetLocation,     *)
(* skip, field edits, handleSubmit, resetForm, fetchReports) and the       *)
(* statistics memo (stats).                                                *)
(*                                                                         *)
(* Text that the code takes apart (bird_species: split('(') and trim())    *)
(* is a sequence of one-character strings.  The module is ASCII, so every  *)
(* CJK character of the source is written as its pinyin syllable:          *)
(*   '死亡' "siwang"   '暈眩' "yunxuan"   '受傷' "shoushang"               *)
(*   '未知' "weizhi"   '未知鳥種' <<"wei","zhi","niao","zhong">>           *)
(*   '透明玻璃' "toumingboli" '反光玻璃' "fanguangboli" '鏡面' "jingmian"  *)
(*   '五色鳥' <<"wu","se","niao">>   '麻雀' <<"ma","que">>                 *)
(* An optional value is a sequence: <<>> for null, <<v>> for v.            *)
(***************************************************************************)
EXTENDS Integers, Sequences, FiniteSets, TLC

\* ------------------------------------------------------------------ bounds
\* Longest enumerated bird_species text, in characters.
MaxLen == 2
\* Longest report collection handed to the statistics memo.
MaxReports == 2
\* Most rows the record store accepts in one run.
MaxInserts == 2
\* Most files the user selects in one run.
MaxCaptures == 2
\* Most geolocation requests outstanding at once.
MaxGeo == 1
\* Most field edits the user makes in one run.
MaxEdits == 1

\* ------------------------------------------------------------------- text
\* JavaScript null / undefined of a text field (no character is "<null>").
NullText == <<"<null>">>
\* JavaScript null / undefined of a status field.
NullStatus == "<null>"

\* Characters String.prototype.trim() strips (those the model uses).
Whitespace == {" ", "\n"}

RECURSIVE TrimStart(_)
TrimStart(s) ==
  IF s # <<>> /\ Head(s) \in Whitespace THEN TrimStart(Tail(s)) ELSE s

RECURSIVE TrimEnd(_)
TrimEnd(s) ==
  IF s # <<>> /\ s[Len(s)] \in Whitespace
  THEN TrimEnd(SubSeq(s, 1, Len(s) - 1))
  ELSE s

\* String.prototype.trim()
Trim(s) == TrimEnd(TrimStart(s))

\* s.split('(')[0]: the text before the first '(' (all of s when it has none).
RECURSIVE SplitHead(_)
SplitHead(s) ==
  IF s = <<>> \/ Head(s) = "(" THEN <<>> ELSE <<Head(s)>> \o SplitHead(Tail(s))

\* '未知鳥種'
UnknownSpecies == <<"wei", "zhi", "niao", "zhong">>
\* '未知'
UnknownStatus == "weizhi"

\* r.bird_species?.split('(')[0].trim() || '未知鳥種'
SpeciesBucketMissesTrim(sp) ==
  IF sp = NullText \/ SplitHead(sp) = <<>> THEN UnknownSpecies ELSE SplitHead(sp)

SpeciesBucket(sp) ==
  IF sp = NullText \/ Trim(SplitHead(sp)) = <<>>
  THEN UnknownSpecies
  ELSE Trim(SplitHead(sp))

\* r.status || '未知'
StatusBucket(st) == IF st = NullStatus \/ st = "" THEN UnknownStatus ELSE st

\* --------------------------------------------- Record<string, number>
\* An object used as a counter table is the sequence of its [key, count]
\* entries in property order, which is what Object.entries() lists: keys
\* that are canonical array indices first, ascending, then the other keys in
\* the order they were first assigned.
Digits == {"0", "1", "2", "3", "4", "5", "6", "7", "8", "9"}

DigitVal(c) ==
  CASE c = "0" -> 0 [] c = "1" -> 1 [] c = "2" -> 2 [] c = "3" -> 3
    [] c = "4" -> 4 [] c = "5" -> 5 [] c = "6" -> 6 [] c = "7" -> 7
    [] c = "8" -> 8 [] OTHER -> 9

\* Whether a property key (a text) is a canonical array index.
IsArrayIndex(k) ==
  /\ Len(k) \in 1..9
  /\ \A i \in 1..Len(k) : k[i] \in Digits
  /\ (Len(k) = 1 \/ k[1] # "0")

RECURSIVE NumVal(_)
NumVal(k) ==
  IF k = <<>> THEN 0 ELSE 10 * NumVal(SubSeq(k, 1, Len(k) - 1)) + DigitVal(k[Len(k)])

HasKey(counts, k) == \E i \in 1..Len(counts) : counts[i][1] = k

\* counts[k] || 0
CountOf(counts, k) ==
  IF HasKey(counts, k)
  THEN counts[CHOOSE i \in 1..Len(counts) : counts[i][1] = k][2]
  ELSE 0

\* Where a new text key lands in property order.
InsertAt(counts, k) ==
  IF IsArrayIndex(k)
  THEN 1 + Cardinality({i \in 1..Len(counts) :
                          IsArrayIndex(counts[i][1]) /\ NumVal(counts[i][1]) < NumVal(k)})
  ELSE Len(counts) + 1

\* speciesCounts[sp] = (speciesCounts[sp] || 0) + 1
BumpSpecies(counts, k) ==
  IF HasKey(counts, k)
  THEN [i \in 1..Len(counts) |->
          IF counts[i][1] = k THEN <<k, counts[i][2] + 1>> ELSE counts[i]]
  ELSE SubSeq(counts, 1, InsertAt(counts, k) - 1) \o << <<k, 1>> >>
         \o SubSeq(counts, InsertAt(counts, k), Len(counts))

\* statusCounts[s] = (statusCounts[s] || 0) + 1 (no status of the model is
\* an array index, so a new key is always appended).
BumpStatus(counts, k) ==
  IF HasKey(counts, k)
  THEN [i \in 1..Len(counts) |->
          IF counts[i][1] = k THEN <<k, counts[i][2] + 1>> ELSE counts[i]]
  ELSE Append(counts, <<k, 1>>)

\* ------------------------------------------------------------- statistics
\* The reports.forEach of stats, species part.
RECURSIVE SpeciesCounts(_)
SpeciesCounts(rs) ==
  IF rs = <<>> THEN <<>>
  ELSE BumpSpecies(SpeciesCounts(SubSeq(rs, 1, Len(rs) - 1)),
                   SpeciesBucket(rs[Len(rs)].bird_species))

\* The reports.forEach of stats, status part.
RECURSIVE StatusCounts(_)
StatusCounts(rs) ==
  IF rs = <<>> THEN <<>>
  ELSE BumpStatus(StatusCounts(SubSeq(rs, 1, Len(rs) - 1)),
                  StatusBucket(rs[Len(rs)].status))

\* Array.prototype.sort(([, a], [, b]) => b - a): stable, count descending.
RECURSIVE InsertByCount(_, _)
InsertByCount(sorted, e) ==
  IF sorted = <<>> THEN <<e>>
  ELSE IF Head(sorted)[2] >= e[2]
       THEN <<Head(sorted)>> \o InsertByCount(Tail(sorted), e)
       ELSE <<e>> \o sorted

RECURSIVE SortByCount(_)
SortByCount(entries) ==
  IF entries = <<>> THEN <<>>
  ELSE InsertByCount(SortByCount(SubSeq(entries, 1, Len(entries) - 1)),
                     entries[Len(entries)])

\* The size of the ranked list: .slice(0, 5)
TopN == 5

Slice(s, n) == SubSeq(s, 1, IF Len(s) < n THEN Len(s) ELSE n)

\* The value of the stats memo for a report collection: <<>> is null.
NoStats == <<>>

\* A variant that also returns null for a collection of one report.
StatsNullBelowTwo(rs) ==
  IF Len(rs) <= 1 THEN NoStats
  ELSE << [total |-> Len(rs),
           statusCounts |-> StatusCounts(rs),
           sortedSpecies |-> Slice(SortByCount(SpeciesCounts(rs)), TopN)] >>

Stats(rs) ==
  IF Len(rs) = 0 THEN NoStats
  ELSE << [total |-> Len(rs),
           statusCounts |-> StatusCounts(rs),
           sortedSpecies |-> Slice(SortByCount(SpeciesCounts(rs)), TopN)] >>

\* ------------------------------------------------------------------ state
VARIABLES
  view,         \* useState 'home' | 'report' | 'map' | 'info' | 'game'
  reports,      \* useState: the local copy of the persisted collection
  stats,        \* the useMemo value derived from reports
  step,         \* useState 1..4: AwaitingPhoto, AwaitingConfirmation,
                \*   AwaitingDetails, Completed
  loading,      \* useState: an insert is being sent
  uploading,    \* useState: a capture attempt is running
  aiAnalyzing,  \* useState: a capture attempt is running
  formData,     \* useState: the draft report
  capture,      \* where the running handleFileUpload call is suspended
  geoPending,   \* getCurrentPosition requests whose callback has not run
  inserting,    \* <<>> or <<row>>: the insert handleSubmit awaits
  fetches,      \* the listAll queries fetchReports awaits: each is the
                \*   number of rows the store held when it was issued
  store,        \* the record store's rows, in insertion order
  captures,     \* files selected so far (bounded by MaxCaptures)
  edits,        \* field edits made so far (bounded by MaxEdits)
  hist          \* history, read by the properties only:
                \*   last: the workflow handler or callback that ran last
                \*   leftBy: how the draft left step 2 ("none", "skip", "gps")
                \*   submitted: the draft at each click on submit whose
                \*     insert has not failed, in order
                \*   done: an insert has succeeded since the last resetForm
                \*   latest: the outcome of the listAll query issued last
                \*     ("pending", "ok", "failed")

vars == <<view, reports, stats, step, loading, uploading, aiAnalyzing,
          formData, capture, geoPending, inserting, fetches, store, captures, edits, hist>>

Views == {"home", "report", "map", "info", "game"}

\* The navigation targets the user picks (enumerated).
NavTargets == {"home", "report"}

\* <option> values of the status select: '死亡', '暈眩', '受傷'
StatusOptions == {"siwang", "yunxuan", "shoushang"}
\* <option> values of the window_type select: '透明玻璃', '反光玻璃', '鏡面'
WindowOptions == {"toumingboli", "fanguangboli", "jingmian"}

\* The initial useState value of formData.
InitialFormData ==
  [reporter_name |-> "", bird_species |-> <<>>, status |-> "siwang",
   window_type |-> "toumingboli", photo_url |-> "", latitude |-> 0,
   longitude |-> 0, description |-> ""]

\* The object resetForm passes to setFormData.
ResetFormDataKeepsPhoto(fd) ==
  [reporter_name |-> "", bird_species |-> <<>>, status |-> "siwang",
   window_type |-> "toumingboli", photo_url |-> fd.photo_url, latitude |-> 0,
   longitude |-> 0, description |-> ""]

ResetFormData(fd) ==
  [reporter_name |-> "", bird_species |-> <<>>, status |-> "siwang",
   window_type |-> "toumingboli", photo_url |-> "", latitude |-> 0,
   longitude |-> 0, description |-> ""]

\* ----------------------------------------------------------- environment
\* Values Math.random() yields for the object name (enumerated).
Randoms == {1}

\* getPublicUrl(fileName).data.publicUrl for fileName = `${random}.jpg`
PublicUrl(r) == IF r = 1 THEN "bird-photos/1.jpg" ELSE "bird-photos/2.jpg"

\* Texts result.response.text() yields (enumerated): an answer with the
\* white space the service puts around it.
AiTexts == { <<" ", "X", "\n">> }

\* Coordinate pairs the geolocation provider reports (enumerated): a point
\* in Taiwan and a point on the equator.
GeoFixes == { <<25, 121>>, <<0, 121>> }

\* What the user types or picks (enumerated).
SpeciesInputs == { <<"Y">> }
NameInputs == {"N"}

\* insert([formData]): the row the store keeps; it assigns id and created_at.
StoreRow(fd, k) ==
  [id |-> k, created_at |-> k, reporter_name |-> fd.reporter_name,
   bird_species |-> fd.bird_species, status |-> fd.status,
   window_type |-> fd.window_type, photo_url |-> fd.photo_url,
   latitude |-> fd.latitude, longitude |-> fd.longitude,
   description |-> fd.description]

\* .order('created_at', { ascending: false })
RECURSIVE OrderByCreatedDesc(_)
OrderByCreatedDesc(rows) ==
  IF rows = {} THEN <<>>
  ELSE LET newest == CHOOSE r \in rows : \A q \in rows : q.created_at <= r.created_at
       IN <<newest>> \o OrderByCreatedDesc(rows \ {newest})

\* select('*') over the first n rows the store received.
ListAll(n) == OrderByCreatedDesc({store[i] : i \in 1..n})

\* ------------------------------------------------------------------- init
\* After the first render and its effect: useEffect has called fetchReports.
Init ==
  /\ view = "home"
  /\ reports = <<>>
  /\ stats = Stats(<<>>)
  /\ step = 1
  /\ loading = FALSE
  /\ uploading = FALSE
  /\ aiAnalyzing = FALSE
  /\ formData = InitialFormData
  /\ capture = [pc |-> "idle", rand |-> 0]
  /\ geoPending = 0
  /\ inserting = <<>>
  /\ fetches = {0}
  /\ store = <<>>
  /\ captures = 0
  /\ edits = 0
  /\ hist = [last |-> "mount", leftBy |-> "none", submitted |-> <<>>,
             done |-> FALSE, latest |-> "pending"]

\* ------------------------------------------------------------ navigation
\* onClick={() => setView(v)} of the header and the bottom bar.
SetView(v) ==
  /\ view # v
  /\ view' = v
  /\ UNCHANGED <<reports, stats, step, loading, uploading, aiAnalyzing, formData,
                 capture, geoPending, inserting, fetches, store, captures, edits, hist>>

\* ---------------------------------------------------------------- capture
\* handleFileUpload up to its first await: a file was chosen.
SelectFile(r) ==
  /\ view = "report" /\ step = 1 /\ ~uploading
  /\ captures < MaxCaptures
  /\ captures' = captures + 1
  /\ uploading' = TRUE
  /\ aiAnalyzing' = TRUE
  /\ capture' = [pc |-> "upload", rand |-> r]
  /\ hist' = [hist EXCEPT !.last = "selectFile"]
  /\ UNCHANGED <<view, reports, stats, step, loading, formData, geoPending,
                 inserting, fetches, store, edits>>

\* A variant that records the public address before it looks at the error.
UploadFailRecordsUrl ==
  /\ capture.pc = "upload"
  /\ formData' = [formData EXCEPT !.photo_url = PublicUrl(capture.rand)]
  /\ uploading' = FALSE
  /\ aiAnalyzing' = FALSE
  /\ capture' = [pc |-> "idle", rand |-> 0]
  /\ hist' = [hist EXCEPT !.last = "uploadFail"]
  /\ UNCHANGED <<view, reports, stats, step, loading, geoPending,
                 inserting, fetches, store, captures, edits>>

\* A variant that goes on to the classification although the upload failed.
UploadFailStillClassifies ==
  /\ capture.pc = "upload"
  /\ capture' = [capture EXCEPT !.pc = "classify"]
  /\ hist' = [hist EXCEPT !.last = "uploadFail"]
  /\ UNCHANGED <<view, reports, stats, step, loading, uploading, aiAnalyzing,
                 formData, geoPending, inserting, fetches, store, captures, edits>>

\* upload() resolved with an error: throw, catch (alert), finally.
UploadFail ==
  /\ capture.pc = "upload"
  /\ uploading' = FALSE
  /\ aiAnalyzing' = FALSE
  /\ capture' = [pc |-> "idle", rand |-> 0]
  /\ hist' = [hist EXCEPT !.last = "uploadFail"]
  /\ UNCHANGED <<view, reports, stats, step, loading, formData, geoPending,
                 inserting, fetches, store, captures, edits>>

\* upload() resolved without error: photo_url is set, generateContent is awaited.
UploadOk ==
  /\ capture.pc = "upload"
  /\ formData' = [formData EXCEPT !.photo_url = PublicUrl(capture.rand)]
  /\ capture' = [capture EXCEPT !.pc = "classify"]
  /\ hist' = [hist EXCEPT !.last = "uploadOk"]
  /\ UNCHANGED <<view, reports, stats, step, loading, uploading, aiAnalyzing,
                 geoPending, inserting, fetches, store, captures, edits>>

\* generateContent resolved and response.text() returned aiText.
ClassifyOk(aiText) ==
  /\ capture.pc = "classify"
  /\ formData' = [formData EXCEPT !.bird_species = Trim(aiText)]
  /\ step' = 2
  /\ uploading' = FALSE
  /\ aiAnalyzing' = FALSE
  /\ capture' = [pc |-> "idle", rand |-> 0]
  /\ hist' = [hist EXCEPT !.last = "classifyOk"]
  /\ UNCHANGED <<view, reports, stats, loading, geoPending, inserting, fetches,
                 store, captures, edits>>

\* A variant without the finally block: the flags stay set after the catch.
ClassifyFailKeepsFlags ==
  /\ capture.pc = "classify"
  /\ capture' = [pc |-> "idle", rand |-> 0]
  /\ hist' = [hist EXCEPT !.last = "classifyFail"]
  /\ UNCHANGED <<view, reports, stats, step, loading, uploading, aiAnalyzing,
                 formData, geoPending, inserting, fetches, store, captures, edits>>

\* fileToGenerativePart, generateContent or response.text() threw: catch
\* (alert), finally.
ClassifyFail ==
  /\ capture.pc = "classify"
  /\ uploading' = FALSE
  /\ aiAnalyzing' = FALSE
  /\ capture' = [pc |-> "idle", rand |-> 0]
  /\ hist' = [hist EXCEPT !.last = "classifyFail"]
  /\ UNCHANGED <<view, reports, stats, step, loading, formData, geoPending,
                 inserting, fetches, store, captures, edits>>

\* ----------------------------------------------------------------- locate
\* handleGetLocation: the request is made; its callbacks run later.
GetLocation ==
  /\ view = "report" /\ step = 2
  /\ geoPending < MaxGeo
  /\ geoPending' = geoPending + 1
  /\ hist' = [hist EXCEPT !.last = "getLocation"]
  /\ UNCHANGED <<view, reports, stats, step, loading, uploading, aiAnalyzing,
                 formData, capture, inserting, fetches, store, captures, edits>>

\* The success callback of getCurrentPosition.
GeoSuccess(pos) ==
  /\ geoPending > 0
  /\ geoPending' = geoPending - 1
  /\ formData' = [formData EXCEPT !.latitude = pos[1], !.longitude = pos[2]]
  /\ step' = 3
  /\ hist' = [hist EXCEPT !.last = "geoSuccess",
                          !.leftBy = IF step = 2 THEN "gps" ELSE @]
  /\ UNCHANGED <<view, reports, stats, loading, uploading, aiAnalyzing, capture,
                 inserting, fetches, store, captures, edits>>

\* A variant whose error callback moves on without a location.
GeoErrorAdvances ==
  /\ geoPending > 0
  /\ geoPending' = geoPending - 1
  /\ step' = 3
  /\ hist' = [hist EXCEPT !.last = "geoError"]
  /\ UNCHANGED <<view, reports, stats, loading, uploading, aiAnalyzing,
                 formData, capture, inserting, fetches, store, captures, edits>>

\* The error callback of getCurrentPosition: alert only.
GeoError ==
  /\ geoPending > 0
  /\ geoPending' = geoPending - 1
  /\ hist' = [hist EXCEPT !.last = "geoError"]
  /\ UNCHANGED <<view, reports, stats, step, loading, uploading, aiAnalyzing,
                 formData, capture, inserting, fetches, store, captures, edits>>

\* onClick={() => setStep(3)} of the skip button.
Skip ==
  /\ view = "report" /\ step = 2
  /\ step' = 3
  /\ hist' = [hist EXCEPT !.last = "skip", !.leftBy = "skip"]
  /\ UNCHANGED <<view, reports, stats, loading, uploading, aiAnalyzing, formData,
                 capture, geoPending, inserting, fetches, store, captures, edits>>

\* ------------------------------------------------------------ field edits
\* onChange of the species input of step 2.
EditSpecies(v) ==
  /\ view = "report" /\ step = 2
  /\ edits < MaxEdits /\ v # formData.bird_species
  /\ formData' = [formData EXCEPT !.bird_species = v]
  /\ edits' = edits + 1
  /\ hist' = [hist EXCEPT !.last = "edit"]
  /\ UNCHANGED <<view, reports, stats, step, loading, uploading, aiAnalyzing,
                 capture, geoPending, inserting, fetches, store, captures>>

\* onChange of the status select of step 3.
EditStatus(v) ==
  /\ view = "report" /\ step = 3
  /\ edits < MaxEdits /\ v # formData.status
  /\ formData' = [formData EXCEPT !.status = v]
  /\ edits' = edits + 1
  /\ hist' = [hist EXCEPT !.last = "edit"]
  /\ UNCHANGED <<view, reports, stats, step, loading, uploading, aiAnalyzing,
                 capture, geoPending, inserting, fetches, store, captures>>

\* onChange of the window_type select of step 3.
EditWindowType(v) ==
  /\ view = "report" /\ step = 3
  /\ edits < MaxEdits /\ v # formData.window_type
  /\ formData' = [formData EXCEPT !.window_type = v]
  /\ edits' = edits + 1
  /\ hist' = [hist EXCEPT !.last = "edit"]
  /\ UNCHANGED <<view, reports, stats, step, loading, uploading, aiAnalyzing,
                 capture, geoPending, inserting, fetches, store, captures>>

\* onChange of the reporter_name input of step 3.
EditReporterName(v) ==
  /\ view = "report" /\ step = 3
  /\ edits < MaxEdits /\ v # formData.reporter_name
  /\ formData' = [formData EXCEPT !.reporter_name = v]
  /\ edits' = edits + 1
  /\ hist' = [hist EXCEPT !.last = "edit"]
  /\ UNCHANGED <<view, reports, stats, step, loading, uploading, aiAnalyzing,
                 capture, geoPending, inserting, fetches, store, captures>>

\* ----------------------------------------------------------------- submit
\* A variant that sends the draft without its location.
SubmitOmitsLocation ==
  /\ view = "report" /\ step = 3 /\ ~loading
  /\ Len(store) < MaxInserts
  /\ loading' = TRUE
  /\ inserting' = <<[formData EXCEPT !.latitude = 0, !.longitude = 0]>>
  /\ hist' = [hist EXCEPT !.last = "submit", !.submitted = Append(@, formData)]
  /\ UNCHANGED <<view, reports, stats, step, uploading, aiAnalyzing, formData,
                 capture, geoPending, fetches, store, captures, edits>>

\* handleSubmit up to its await: insert([formData]) is sent.
Submit ==
  /\ view = "report" /\ step = 3 /\ ~loading
  /\ Len(store) < MaxInserts
  /\ loading' = TRUE
  /\ inserting' = <<formData>>
  /\ hist' = [hist EXCEPT !.last = "submit", !.submitted = Append(@, formData)]
  /\ UNCHANGED <<view, reports, stats, step, uploading, aiAnalyzing, formData,
                 capture, geoPending, fetches, store, captures, edits>>

\* A variant that does not call fetchReports.
InsertOkNoRefresh ==
  /\ inserting # <<>>
  /\ store' = Append(store, StoreRow(inserting[1], Len(store) + 1))
  /\ step' = 4
  /\ loading' = FALSE
  /\ inserting' = <<>>
  /\ hist' = [hist EXCEPT !.last = "insertOk", !.done = TRUE]
  /\ UNCHANGED <<view, reports, stats, uploading, aiAnalyzing, formData, capture,
                 geoPending, fetches, captures, edits>>

\* insert resolved without error: setStep(4), fetchReports(), setLoading(false).
InsertOk ==
  /\ inserting # <<>>
  /\ store' = Append(store, StoreRow(inserting[1], Len(store) + 1))
  /\ step' = 4
  /\ fetches' = fetches \cup {Len(store) + 1}
  /\ loading' = FALSE
  /\ inserting' = <<>>
  /\ hist' = [hist EXCEPT !.last = "insertOk", !.done = TRUE,
                          !.latest = "pending"]
  /\ UNCHANGED <<view, reports, stats, uploading, aiAnalyzing, formData, capture,
                 geoPending, captures, edits>>

\* A variant that calls setLoading(false) on success only.
InsertFailKeepsLoading ==
  /\ inserting # <<>>
  /\ inserting' = <<>>
  /\ hist' = [hist EXCEPT !.last = "insertFail",
                          !.submitted = SubSeq(@, 1, Len(@) - 1)]
  /\ UNCHANGED <<view, reports, stats, step, loading, uploading, aiAnalyzing,
                 formData, capture, geoPending, fetches, store, captures, edits>>

\* insert resolved with an error: alert, setLoading(false).
InsertFail ==
  /\ inserting # <<>>
  /\ loading' = FALSE
  /\ inserting' = <<>>
  /\ hist' = [hist EXCEPT !.last = "insertFail",
                          !.submitted = SubSeq(@, 1, Len(@) - 1)]
  /\ UNCHANGED <<view, reports, stats, step, uploading, aiAnalyzing, formData,
                 capture, geoPending, fetches, store, captures, edits>>

\* resetForm: the button of step 4.
ResetForm ==
  /\ view = "report" /\ step = 4
  /\ formData' = ResetFormData(formData)
  /\ step' = 1
  /\ view' = "home"
  /\ hist' = [hist EXCEPT !.last = "resetForm", !.leftBy = "none", !.done = FALSE]
  /\ UNCHANGED <<reports, stats, loading, uploading, aiAnalyzing, capture,
                 geoPending, inserting, fetches, store, captures, edits>>

\* ------------------------------------------------------------ fetchReports
\* The query resolved with data: the store read its rows at some moment
\* after the query was issued, when it held n of them; setReports(data), and
\* the render recomputes stats.
FetchOk(f, n) ==
  /\ f \in fetches /\ n \in f..Len(store)
  /\ reports' = ListAll(n)
  /\ stats' = Stats(reports')
  /\ fetches' = fetches \ {f}
  /\ hist' = [hist EXCEPT !.last = "fetchOk",
                          !.latest = IF f = Len(store) THEN "ok" ELSE @]
  /\ UNCHANGED <<view, step, loading, uploading, aiAnalyzing, formData, capture,
                 geoPending, inserting, store, captures, edits>>

\* The query resolved with an error: data is null, nothing is set.
FetchFail(f) ==
  /\ f \in fetches
  /\ fetches' = fetches \ {f}
  /\ hist' = [hist EXCEPT !.last = "fetchFail",
                          !.latest = IF f = Len(store) THEN "failed" ELSE @]
  /\ UNCHANGED <<view, reports, stats, step, loading, uploading, aiAnalyzing,
                 formData, capture, geoPending, inserting, store, captures, edits>>

\* --------------------------------------------------------- specification
Next ==
  \/ \E v \in NavTargets : SetView(v)
  \/ \E r \in Randoms : SelectFile(r)
  \/ UploadFail
  \/ UploadOk
  \/ \E t \in AiTexts : ClassifyOk(t)
  \/ ClassifyFail
  \/ GetLocation
  \/ \E pos \in GeoFixes : GeoSuccess(pos)
  \/ GeoError
  \/ Skip
  \/ \E v \in SpeciesInputs : EditSpecies(v)
  \/ \E v \in StatusOptions : EditStatus(v)
  \/ \E v \in WindowOptions : EditWindowType(v)
  \/ \E v \in NameInputs : EditReporterName(v)
  \/ Submit
  \/ InsertOk
  \/ InsertFail
  \/ ResetForm
  \/ \E f \in fetches : \E n \in 0..MaxInserts : FetchOk(f, n)
  \/ \E f \in fetches : FetchFail(f)

Spec == Init /\ [][Next]_vars

\* ------------------------------------------- the statistics memo alone
\* The memo is a pure function of reports, and the rows a listAll returns are
\* whatever the record store holds.  SpecStats starts where setReports(data)
\* has just run with an enumerated data, and its one step is the render that
\* recomputes the memo.

\* The characters of the enumerated species texts.
Alphabet == {"X", " ", "("}

RECURSIVE TextsUpTo(_)
TextsUpTo(n) ==
  IF n = 0 THEN {<<>>}
  ELSE TextsUpTo(n - 1) \cup
       {Append(t, c) : t \in {u \in TextsUpTo(n - 1) : Len(u) = n - 1}, c \in Alphabet}

\* '五色鳥 (95%)', '五色鳥 (60%)', '麻雀 (80%)', '7', and a missing species.
SpeciesSamples ==
  TextsUpTo(MaxLen) \cup
  { <<"wu", "se", "niao", " ", "(", "9", "5", "%", ")">>,
    <<"wu", "se", "niao", " ", "(", "6", "0", "%", ")">>,
    <<"ma", "que", " ", "(", "8", "0", "%", ")">>,
    <<"7">>,
    NullText }

\* The three statuses of the form, a status it cannot produce ('其他'), and
\* a missing status.
StatusSamples == StatusOptions \cup {"qita", NullStatus}

\* Rows that differ from a default row in their species or in their status.
SampleRows ==
  {[StoreRow(InitialFormData, 0) EXCEPT !.bird_species = sp] : sp \in SpeciesSamples}
    \cup {[StoreRow(InitialFormData, 0) EXCEPT !.bird_species = <<"X">>, !.status = st] :
            st \in StatusSamples}

\* A listAll answer of n rows, newest first.
Answers(n) ==
  {[i \in 1..n |-> [rows[i] EXCEPT !.id = n + 1 - i, !.created_at = n + 1 - i]] :
     rows \in [1..n -> SampleRows]}

InitStats ==
  /\ view = "info"
  /\ \E n \in 0..MaxReports : reports \in Answers(n)
  /\ stats = NoStats
  /\ step = 1
  /\ loading = FALSE
  /\ uploading = FALSE
  /\ aiAnalyzing = FALSE
  /\ formData = InitialFormData
  /\ capture = [pc |-> "idle", rand |-> 0]
  /\ geoPending = 0
  /\ inserting = <<>>
  /\ fetches = {}
  /\ store = <<>>
  /\ captures = 0
  /\ edits = 0
  /\ hist = [last |-> "setReports", leftBy |-> "none", submitted |-> <<>>,
             done |-> FALSE, latest |-> "ok"]

\* The render after setReports: useMemo recomputes stats from reports.
Render ==
  /\ hist.last = "setReports"
  /\ stats' = Stats(reports)
  /\ hist' = [hist EXCEPT !.last = "render"]
  /\ UNCHANGED <<view, reports, step, loading, uploading, aiAnalyzing, formData,
                 capture, geoPending, inserting, fetches, store, captures, edits>>

NextStats == Render

SpecStats == InitStats /\ [][NextStats]_vars

\* ================================================================ claims

\* The steps of the workflow.
AwaitingPhoto == 1
AwaitingConfirmation == 2
AwaitingDetails == 3
Completed == 4

\* The fields of a report the user or the workflow supplies.
SameUserFields(a, b) ==
  /\ a.reporter_name = b.reporter_name
  /\ a.bird_species = b.bird_species
  /\ a.status = b.status
  /\ a.window_type = b.window_type
  /\ a.photo_url = b.photo_url
  /\ a.latitude = b.latitude
  /\ a.longitude = b.longitude
  /\ a.description = b.description

\* ---- C1 -----------------------------------------------------------------
\* C1: when a capture attempt whose upload succeeded has finished, whether
\* the classification call returned a text or failed, the workflow is in
\* AwaitingConfirmation (step 2).
C1_ReachesConfirmation ==
  hist.last \in {"classifyOk", "classifyFail"} => step = AwaitingConfirmation

\* ---- C2 -----------------------------------------------------------------
\* The text of the error the classification call raised.
RawErrorText == <<"E", "r", "r", "o", "r">>

\* C2: when a capture attempt has finished with a failed classification call,
\* bird_species is a fallback sentinel: a text that is not empty, not absent
\* and not the raw error text.
C2_FallbackSentinel ==
  hist.last = "classifyFail" =>
    formData.bird_species \notin {<<>>, NullText, RawErrorText}

\* ---- C3 -----------------------------------------------------------------
\* C3: the step in which handleFileUpload learns that the upload failed
\* leaves the workflow step where it is (in AwaitingPhoto when it was there),
\* leaves every field of the draft as it was, and sends no insert and starts
\* no classification: the attempt is over.
C3_UploadFailure ==
  [][(capture.pc = "upload" /\ capture'.pc = "idle") =>
       /\ step' = step
       /\ formData' = formData
       /\ inserting' = inserting /\ store' = store
       /\ ~uploading' /\ ~aiAnalyzing']_vars

\* An upload failed after an earlier attempt had recorded a photo: the
\* workflow is still in AwaitingPhoto and the draft still holds that photo.
C3_Witness ==
  /\ hist.last = "uploadFail"
  /\ step = AwaitingPhoto
  /\ formData.photo_url # ""
  /\ formData.bird_species = <<>>
  /\ store = <<>> /\ inserting = <<>>

\* ---- C4 -----------------------------------------------------------------
\* C4: the step in which handleSubmit learns that the insert failed leaves
\* the workflow step where it is, leaves every field of the draft as it was,
\* issues no listAll query and changes neither the store nor the local
\* collection, and ends with loading false and no insert in flight, so that
\* submit can be triggered again.
C4_InsertFailure ==
  [][(inserting # <<>> /\ inserting' = <<>> /\ store' = store) =>
       /\ step' = step
       /\ formData' = formData
       /\ fetches' = fetches /\ reports' = reports
       /\ ~loading']_vars

\* An insert of an edited draft failed: the workflow is in AwaitingDetails
\* with the draft as edited, nothing was stored, and submit is available.
C4_Witness ==
  /\ hist.last = "insertFail"
  /\ view = "report" /\ step = AwaitingDetails /\ ~loading
  /\ store = <<>> /\ inserting = <<>>
  /\ formData.reporter_name = "N" /\ formData.photo_url # ""

\* ---- C5 -----------------------------------------------------------------
\* C5: the step in which handleSubmit learns that the insert succeeded sets
\* the step to Completed (4) and issues a new listAll query; and when the
\* query issued after the k-th successful insert returns data, the local
\* collection holds the k-th row of the store, with the identity the store
\* gave it.
C5_InsertSuccess ==
  [][/\ (Len(store') = Len(store) + 1) =>
          /\ step' = Completed
          /\ Len(store') \notin fetches
          /\ fetches' = fetches \cup {Len(store')}
          /\ ~loading'
     /\ \A f \in fetches \ fetches' :
          (f >= 1 /\ hist'.last = "fetchOk") =>
            \E i \in 1..Len(reports') :
              reports'[i] = store[f] /\ reports'[i].id = f]_vars

\* The refresh issued after the second insert returned both rows.
C5_Witness ==
  /\ hist.last = "fetchOk"
  /\ Len(store) = 2
  /\ 2 \notin fetches
  /\ Len(reports) = 2
  /\ reports[1].id = 2
  /\ step = Completed

\* ---- C6 -----------------------------------------------------------------
\* C6: once the draft has left AwaitingConfirmation by the skip button, its
\* latitude and longitude are (0,0) while the workflow is in AwaitingDetails,
\* and they are (0,0) in the insert sent for it.
C6_SkipKeepsUnset ==
  hist.leftBy = "skip" =>
    /\ (step = AwaitingDetails => formData.latitude = 0 /\ formData.longitude = 0)
    /\ (inserting # <<>> => inserting[1].latitude = 0 /\ inserting[1].longitude = 0)

\* ---- C7 -----------------------------------------------------------------
\* C7: the step in which the error callback of a geolocation request runs
\* leaves the workflow step where it is (in AwaitingConfirmation when it was
\* there) and leaves every field of the draft as it was; and the workflow
\* moves from AwaitingConfirmation to AwaitingDetails only in the success
\* callback of a request or by the skip button.
C7_GeoFailure ==
  [][/\ (geoPending' < geoPending /\ hist'.last = "geoError") =>
          (step' = step /\ formData' = formData)
     /\ (step = AwaitingConfirmation /\ step' = AwaitingDetails) =>
          hist'.last \in {"geoSuccess", "skip"}]_vars

\* A request failed in AwaitingConfirmation, and the workflow is still there
\* with the location unset and the photo and species of the capture.
C7_Witness ==
  /\ hist.last = "geoError"
  /\ step = AwaitingConfirmation
  /\ geoPending = 0
  /\ formData.latitude = 0 /\ formData.longitude = 0
  /\ formData.photo_url # "" /\ formData.bird_species = <<"X">>

\* ---- C8 -----------------------------------------------------------------
\* C8: whenever a listAll query returns data, every row of the local
\* collection agrees in reporter_name, bird_species, status, window_type,
\* photo_url, latitude, longitude and description with the draft as it was
\* when the submit that inserted the row was triggered, and has an identity
\* and a created_at; and the query issued after the k-th successful insert
\* returns the k-th submitted draft.
C8_RoundTrip ==
  [][hist'.last = "fetchOk" /\ fetches' # fetches =>
       /\ \A i \in 1..Len(reports') :
            /\ reports'[i].id \in 1..Len(hist.submitted)
            /\ reports'[i].created_at >= 1
            /\ SameUserFields(reports'[i], hist.submitted[reports'[i].id])
       /\ \A f \in fetches \ fetches' :
            f >= 1 => \E i \in 1..Len(reports') :
                        /\ reports'[i].id = f
                        /\ SameUserFields(reports'[i], hist.submitted[f])]_vars

\* A draft with a location, an edited field and a photo came back from the
\* store after the user had changed the draft again (by resetting it).
C8_Witness ==
  /\ hist.last = "fetchOk"
  /\ Len(reports) >= 1
  /\ reports[1].latitude = 25 /\ reports[1].longitude = 121
  /\ reports[1].status = "yunxuan"
  /\ reports[1].photo_url # ""
  /\ reports[1].id = 1
  /\ formData # hist.submitted[1]

\* ---- C9 -----------------------------------------------------------------
\* C9: right after resetForm the workflow is in AwaitingPhoto (step 1) and
\* the draft equals the initial draft field by field: reporter_name,
\* bird_species, photo_url and description empty, status '死亡', window_type
\* '透明玻璃', latitude 0 and longitude 0.
C9_ResetYieldsInitial ==
  hist.last = "resetForm" =>
    /\ step = AwaitingPhoto
    /\ formData = InitialFormData
    /\ formData.reporter_name = "" /\ formData.bird_species = <<>>
    /\ formData.photo_url = "" /\ formData.description = ""
    /\ formData.status = "siwang" /\ formData.window_type = "toumingboli"
    /\ formData.latitude = 0 /\ formData.longitude = 0

\* resetForm ran on a draft that had a photo, a species, a location and an
\* edited field, all of which the store received.
C9_Witness ==
  /\ hist.last = "resetForm"
  /\ step = AwaitingPhoto
  /\ formData = InitialFormData
  /\ Len(store) = 1
  /\ store[1].photo_url # "" /\ store[1].bird_species # <<>>
  /\ store[1].latitude # 0 /\ store[1].reporter_name = "N"

\* ---- C10 ----------------------------------------------------------------
\* k is the text of sp before its first '(' with the white space at both ends
\* removed: sp = pre \o rest with no '(' in pre and rest empty or starting
\* with '(', and pre = blanks \o k \o blanks with k not starting or ending in
\* a blank.
NormalizesTo(sp, k) ==
  \E i \in 0..Len(sp) :
    /\ \A j \in 1..i : sp[j] # "("
    /\ (i = Len(sp) \/ sp[i + 1] = "(")
    /\ \E a \in 0..i :
         /\ a + Len(k) <= i
         /\ \A j \in 1..a : sp[j] \in Whitespace
         /\ \A j \in (a + Len(k) + 1)..i : sp[j] \in Whitespace
         /\ SubSeq(sp, a + 1, a + Len(k)) = k
    /\ (k # <<>> => k[1] \notin Whitespace /\ k[Len(k)] \notin Whitespace)

\* The pieces of a text: the candidates for its normalized key.
Pieces(sp) == {SubSeq(sp, a, b) : a \in 1..(Len(sp) + 1), b \in 0..Len(sp)}

\* The key a report is counted under, as the claim states it.
ClaimedSpeciesKey(sp) ==
  IF sp = NullText \/ NormalizesTo(sp, <<>>)
  THEN UnknownSpecies
  ELSE CHOOSE k \in Pieces(sp) : NormalizesTo(sp, k)

ClaimedSpeciesKeys == {ClaimedSpeciesKey(reports[i].bird_species) : i \in 1..Len(reports)}

C10_WitnessUnknown ==
  /\ hist.last = "render"
  /\ Len(reports) = 2
  /\ reports[1].bird_species = NullText
  /\ reports[2].bird_species = <<" ", "(">>
  /\ stats[1].sortedSpecies = << <<UnknownSpecies, 2>> >>

\* ---- C11 ----------------------------------------------------------------
\* The species keys of the report collection, the number of reports of a key,
\* and the position in the collection where a key is first met.
SpeciesKeys == {SpeciesBucket(reports[i].bird_species) : i \in 1..Len(reports)}

ReportsOfKey(k) == {i \in 1..Len(reports) : SpeciesBucket(reports[i].bird_species) = k}

FirstMet(k) == CHOOSE i \in ReportsOfKey(k) : \A j \in ReportsOfKey(k) : i <= j

\* Key a ranks before key b: more reports, or as many and met earlier.
RanksBefore(a, b) ==
  \/ Cardinality(ReportsOfKey(a)) > Cardinality(ReportsOfKey(b))
  \/ /\ Cardinality(ReportsOfKey(a)) = Cardinality(ReportsOfKey(b))
     /\ FirstMet(a) < FirstMet(b)

\* C11: after the render, for a non-empty report collection, the ranked
\* species list holds the species keys with their counts, those with more
\* reports first and those with as many reports in the order in which the
\* keys are first met in the collection, cut to the first 5.
C11_Ranking ==
  (hist.last = "render" /\ reports # <<>>) =>
    LET ranked == stats[1].sortedSpecies
        listed == {ranked[i][1] : i \in 1..Len(ranked)}
    IN /\ Len(ranked) = IF Cardinality(SpeciesKeys) < TopN
                        THEN Cardinality(SpeciesKeys) ELSE TopN
       /\ listed \subseteq SpeciesKeys
       /\ \A i \in 1..Len(ranked) :
            ranked[i][2] = Cardinality(ReportsOfKey(ranked[i][1]))
       /\ \A i, j \in 1..Len(ranked) :
            i < j => RanksBefore(ranked[i][1], ranked[j][1])
       /\ \A k \in SpeciesKeys \ listed : \A i \in 1..Len(ranked) :
            RanksBefore(ranked[i][1], k)

\* ---- C12 ----------------------------------------------------------------
\* The sum of the counts of a counter table.
RECURSIVE SumOfCounts(_)
SumOfCounts(counts) ==
  IF counts = <<>> THEN 0 ELSE Head(counts)[2] + SumOfCounts(Tail(counts))

\* C12: after the render, for a non-empty report collection, the status
\* table has a key for each of the three recognized statuses that occurs,
\* counting the reports with exactly that status, and the key '未知' counting
\* the reports whose status is absent or is none of the three; it has no
\* other key, and its counts add up to the number of reports.
C12_StatusGrouping ==
  (hist.last = "render" /\ reports # <<>>) =>
    LET table == stats[1].statusCounts
        with(s) == {i \in 1..Len(reports) : reports[i].status = s}
        others == {i \in 1..Len(reports) : reports[i].status \notin StatusOptions}
    IN /\ \A s \in StatusOptions : CountOf(table, s) = Cardinality(with(s))
       /\ CountOf(table, UnknownStatus) = Cardinality(others)
       /\ \A i \in 1..Len(table) :
            /\ table[i][1] \in StatusOptions \cup {UnknownStatus}
            /\ table[i][2] >= 1
            /\ \A j \in 1..Len(table) : table[j][1] = table[i][1] => j = i
       /\ SumOfCounts(table) = Len(reports)

\* ---- C13 ----------------------------------------------------------------
\* C13: in every state the statistics summary is null exactly when the local
\* report collection is empty, a null summary has no grouping and no ranking,
\* and the total of a summary equals the length of the collection.
C13_NullIffEmpty ==
  /\ (stats = NoStats) <=> (Len(reports) = 0)
  /\ Len(stats) <= 1
  /\ stats # NoStats => stats[1].total = Len(reports)

\* A refresh returned one row and the summary counts it; the summary was null
\* while the collection was empty.
C13_Witness ==
  /\ hist.last = "fetchOk"
  /\ Len(reports) = 1
  /\ stats # NoStats
  /\ stats[1].total = 1

\* ---- C14 ----------------------------------------------------------------
\* C14: every change of the workflow step is an advance by exactly one or a
\* return to AwaitingPhoto (step 1), and the step leaves Completed (4) only by
\* resetForm.
C14_LinearSteps ==
  [][/\ step' # step => (step' = step + 1 \/ step' = AwaitingPhoto)
     /\ (step = Completed /\ step' # Completed) => hist'.last = "resetForm"]_vars

\* ---- C15 ----------------------------------------------------------------
\* The external calls of the draft whose outcome has not been received:
\* the upload or classification of a capture, geolocation requests, an insert.
OutstandingCalls ==
  (IF capture.pc # "idle" THEN 1 ELSE 0) + geoPending
    + (IF inserting # <<>> THEN 1 ELSE 0)

\* C15: at most one external call of the draft is outstanding, and while one
\* is outstanding no step is a skip, a submit, a reset, a new geolocation
\* request or a new capture.
C15_OneOutstandingCall ==
  [][/\ OutstandingCalls' <= 1
     /\ OutstandingCalls > 0 =>
          /\ ~(step = AwaitingConfirmation /\ step' = AwaitingDetails
                 /\ geoPending' = geoPending)
          /\ ~(inserting = <<>> /\ inserting' # <<>>)
          /\ ~(step = Completed /\ step' = AwaitingPhoto)
          /\ ~(geoPending' > geoPending)
          /\ ~(capture.pc = "idle" /\ capture'.pc # "idle")]_vars

\* ---- C16 ----------------------------------------------------------------
\* The public addresses a successful upload records on the draft.
UploadedUrls == {PublicUrl(r) : r \in Randoms}

\* C16: whenever the workflow is in AwaitingDetails (step 3) with the submit
\* button available, the photo_url of the draft is the public address of a
\* successful upload, and the report of every insert in flight and every row
\* the store received has such a photo_url.
C16_PhotoBeforeSubmit ==
  /\ (step = AwaitingDetails /\ view = "report" /\ ~loading) =>
       formData.photo_url \in UploadedUrls
  /\ inserting # <<>> => inserting[1].photo_url \in UploadedUrls
  /\ \A i \in 1..Len(store) : store[i].photo_url \in UploadedUrls

\* ---- C17 ----------------------------------------------------------------
\* C17: once an insert has succeeded, no insert is issued and none succeeds
\* until resetForm has replaced the draft.
C17_SubmittedOnce ==
  [][/\ (inserting = <<>> /\ inserting' # <<>>) => ~hist.done
     /\ Len(store') > Len(store) => ~hist.done]_vars

\* ---- C18 ----------------------------------------------------------------
\* C18: a capture attempt starts with the upload; the classification call is
\* made only in the step in which the upload of the same attempt succeeds,
\* which records the public address of the uploaded file as photo_url; and
\* the step in which the upload fails ends the attempt without a
\* classification call.
C18_UploadThenClassify ==
  [][/\ capture.pc = "idle" => capture'.pc \in {"idle", "upload"}
     /\ (capture.pc # "classify" /\ capture'.pc = "classify") =>
          /\ capture.pc = "upload"
          /\ capture'.rand = capture.rand
          /\ hist'.last = "uploadOk"
          /\ formData'.photo_url = PublicUrl(capture.rand)
     /\ (capture.pc = "upload" /\ hist'.last = "uploadFail") =>
          capture'.pc = "idle"
     /\ (capture.pc = "upload" /\ capture'.pc = "idle") =>
          hist'.last = "uploadFail"]_vars

\* The upload of a second attempt succeeded after the first attempt had ended
\* in a failure: the classification call is outstanding and photo_url is set.
C18_Witness ==
  /\ hist.last = "uploadOk"
  /\ captures = 2
  /\ capture.pc = "classify"
  /\ formData.photo_url = PublicUrl(capture.rand)
  /\ formData.bird_species = <<>>
  /\ step = AwaitingPhoto

\* ---- C19 ----------------------------------------------------------------
\* C19: after every step that leaves no listAll query outstanding with the
\* query issued last having returned data, the local collection is the whole
\* content of the record store, newest first; a query that returns data never
\* replaces the local collection by an older snapshot (one with fewer rows:
\* the store only grows); and a query that fails leaves the local collection
\* as it was.
C19_FaithfulSnapshot ==
  [][/\ (fetches' = {} /\ hist'.latest = "ok") =>
          reports' = OrderByCreatedDesc({store'[i] : i \in 1..Len(store')})
     /\ (fetches' # fetches /\ hist'.last = "fetchOk") =>
          Len(reports') >= Len(reports)
     /\ (fetches' # fetches /\ hist'.last = "fetchFail") =>
          reports' = reports]_vars

\* ---- C20 ----------------------------------------------------------------
\* C20: in every state the latitude of the draft is 0 exactly when its
\* longitude is 0.
C20_UnsetTogether ==
  (formData.latitude = 0) <=> (formData.longitude = 0)

\* ---- C21 ----------------------------------------------------------------
\* C21: after every step, uploading and aiAnalyzing are true exactly when a
\* capture attempt is in flight (its upload or its classification is awaited)
\* and loading is true exactly when an insert is in flight, so all three are
\* false once the attempt or the insert has ended, whatever its outcome; and
\* a capture attempt starts only when none is in flight and an insert is sent
\* only when none is in flight.
C21_BusyFlags ==
  [][/\ uploading' <=> (capture'.pc # "idle")
     /\ aiAnalyzing' <=> (capture'.pc # "idle")
     /\ loading' <=> (inserting' # <<>>)
     /\ captures' > captures =>
          /\ ~uploading /\ ~aiAnalyzing /\ capture.pc = "idle"
          /\ uploading' /\ aiAnalyzing'
     /\ Len(hist'.submitted) > Len(hist.submitted) =>
          /\ ~loading /\ inserting = <<>>
          /\ loading']_vars

\* A capture attempt failed, a second one succeeded, and the insert of its
\* draft failed: no call is in flight and the three flags are false.
C21_Witness ==
  /\ hist.last = "insertFail"
  /\ captures = 2
  /\ formData.bird_species = <<"X">>
  /\ capture.pc = "idle" /\ inserting = <<>>
  /\ ~uploading /\ ~aiAnalyzing /\ ~loading

====
